---------------------------- MODULE Spec2Model ----------------------------
(***************************************************************************)
(* EMMA ns-3 simulations.                                                  *)
(*                                                                         *)
(* emma-lte-sim.cc: MulticastSender reads the CAP file into a buffer and   *)
(* sends it in chunks through a chain of self-rescheduled Send events; ten *)
(* UE sinks log one line per packet received.  The ns-3 engine is the      *)
(* event queue: events run in (time, insertion order); Simulator::Stop     *)
(* inserts a stop event, Simulator::Destroy drops what is left.            *)
(*                                                                         *)
(* Virtual time is counted in milliseconds.  Payload bytes are the bytes   *)
(* of the file, FileByte(i) for position i; a packet is the byte range it  *)
(* was created from.                                                       *)
(***************************************************************************)
EXTENDS Integers, Sequences, FiniteSets, TLC

(***************************************************************************)
(* Program constants (emma-lte-sim.cc), in bytes and milliseconds.         *)
(***************************************************************************)
ChunkBytes == 1024
StartDelayMs == 1000
IntervalMs == 10
StopMs == 5000
SenderStartMs == 0

(***************************************************************************)
(* Bounds of the model.                                                    *)
(***************************************************************************)
\* number of UE sinks (the program creates 10)
NumUes == 2
\* payload lengths run up to MaxChunks full chunks and a remainder
MaxChunks == 2
\* largest chunk size of the scaled-down configurations
MaxChunk == 2
\* largest stop time of the scaled-down configurations
MaxStop == 6
\* number of socket sends that may fail in one run
MaxFailures == 1

\* longest socket queue the receive callback is tried on
MaxQueue == 3

Ues == 1..NumUes

\* transport latencies from the sender to a sink
Delays == {0, 1, 3}
\* start delays and intervals of the scaled-down configurations
StartDelays == {0, 1}
Intervals == {0, 1, 2}

Min(a, b) == IF a < b THEN a ELSE b

\* the configuration the program is shipped with
Shipped ==
  [chunk |-> ChunkBytes, startDelay |-> StartDelayMs,
   interval |-> IntervalMs, stop |-> StopMs]

\* the same program with smaller literals
Scaled ==
  [chunk : 2..MaxChunk, startDelay : StartDelays,
   interval : Intervals, stop : 0..MaxStop]

Configs == {Shipped} \cup Scaled

\* lengths of the CAP file, around the multiples of the chunk size
FileLens(c) ==
  {k * c + d : k \in 0..MaxChunks, d \in {0, 1, c - 1}}
    \cup (IF c = ChunkBytes THEN {2500} ELSE {})

\* the byte at position i (from 0) of the CAP file
FileByte(i) == (i * 7 + 3) % 256

VARIABLES
  cfg,        \* literals of the program: chunk, startDelay, interval, stop
  file,       \* the CAP file: [ok, len]; ok = FALSE when it cannot be opened
  delay,      \* transport latency to each UE
  phase,      \* "run" inside Simulator::Run, "done" after main returned
  now,        \* Simulator::Now()
  stopped,    \* the engine's stop flag
  events,     \* the engine's event queue
  nextUid,    \* insertion counter of the event queue
  started,    \* StartApplication has run
  buffer,     \* buffer.size() of the sender
  sent,       \* packets handed to m_socket->Send: [time, offset, len, ok]
  rxq,        \* per UE, packets queued on the sink socket
  log,        \* per UE, the lines logged: [id, time]
  got,        \* per UE, the packets read by RecvFrom, in order
  sendCalls,  \* number of Send events that have run
  sinkTx,     \* per UE, number of packets the sink put on the network
  sendFaults, \* number of socket sends the transport may still fail
  dropped,    \* events discarded by Simulator::Destroy
  exitCode    \* main's return value, -1 while running

vars ==
  <<cfg, file, delay, phase, now, stopped, events, nextUid, started, buffer,
    sent, sendCalls, rxq, log, got, sinkTx, sendFaults, dropped, exitCode>>

NoPkt == [off |-> 0, len |-> 0]

Event(t, u, k, o, r, p) ==
  [time |-> t, uid |-> u, kind |-> k, offset |-> o, rcv |-> r, pkt |-> p]

\* equal times broken the other way round: the later insertion first
Before_Lifo(e, f) ==
  \/ e.time < f.time
  \/ e.time = f.time /\ e.uid > f.uid

\* events at distinct times run in time order, at equal times in insertion order
Before(e, f) ==
  \/ e.time < f.time
  \/ e.time = f.time /\ e.uid < f.uid

NextEvent == CHOOSE e \in events : \A f \in events : f = e \/ Before(e, f)

Running == phase = "run" /\ ~stopped /\ events # {}

Failures == Cardinality({k \in 1..Len(sent) : ~sent[k].ok})

(***************************************************************************)
(* main, up to Simulator::Run: Simulator::Stop has inserted the stop event *)
(* and the sender's start is due at its start time.                        *)
(***************************************************************************)
Init ==
  /\ cfg \in Configs
  /\ file \in {[ok |-> TRUE, len |-> n] : n \in FileLens(cfg.chunk)}
                \cup {[ok |-> FALSE, len |-> 0]}
  /\ delay \in [Ues -> Delays]
  /\ phase = "run"
  /\ now = 0
  /\ stopped = FALSE
  /\ events = {Event(cfg.stop, 0, "Stop", 0, 0, NoPkt),
               Event(SenderStartMs, 1, "Start", 0, 0, NoPkt)}
  /\ nextUid = 2
  /\ started = FALSE
  /\ buffer = 0
  /\ sent = <<>>
  /\ sendCalls = 0
  /\ rxq = [r \in Ues |-> <<>>]
  /\ log = [r \in Ues |-> <<>>]
  /\ got = [r \in Ues |-> <<>>]
  /\ sinkTx = [r \in Ues |-> 0]
  /\ sendFaults = MaxFailures
  /\ dropped = {}
  /\ exitCode = -1

\* the buffer StartApplication builds from the file: empty when the open failed
ReadFile == IF file.ok THEN file.len ELSE 0

\* MulticastSender::StartApplication
StartApplication ==
  /\ Running
  /\ NextEvent.kind = "Start"
  /\ now' = NextEvent.time
  /\ started' = TRUE
  /\ buffer' = ReadFile
  /\ events' = (events \ {NextEvent})
       \cup {Event(NextEvent.time + cfg.startDelay, nextUid, "Send", 0, 0, NoPkt)}
  /\ nextUid' = nextUid + 1
  /\ UNCHANGED <<cfg, file, delay, phase, stopped, sent, sendCalls, rxq, log,
                 got, dropped, exitCode, sinkTx, sendFaults>>

\* a Send that sends full chunks only
MoreToSend_FullOnly(offset, size) == offset + cfg.chunk <= size

\* a Send that also runs at the end of the buffer
MoreToSend_Inclusive(offset, size) == offset <= size

\* the test that opens Send
MoreToSend(offset, size) == offset < size

\* a chunk length that ignores the end of the buffer
ChunkLen_Fixed(offset, size) == cfg.chunk

\* a chunk length that forgets the chunk size
ChunkLen_Rest(offset, size) == size - offset

\* len of the chunk at offset
ChunkLen(offset, size) == Min(cfg.chunk, size - offset)

\* a next offset that skips a byte
\* the offset advanced by a whole chunk whatever was sent
NextOffset_Chunk(offset, len) == offset + cfg.chunk

NextOffset_Skip(offset, len) == offset + len + 1

\* a next offset that does not advance
NextOffset_Stay(offset, len) == offset

\* the offset the next Send is scheduled with
NextOffset(offset, len) == offset + len

\* a next Send one millisecond late
NextSendTime_Late(t) == t + cfg.interval + 1

\* the time the next Send is scheduled at
NextSendTime(t) == t + cfg.interval

\* a successor registered only while bytes are left
Successor_IfMore(t, u, offset, len) ==
  IF offset + len < buffer
    THEN {Event(NextSendTime(t), u, "Send", NextOffset(offset, len), 0, NoPkt)}
    ELSE {}

\* a successor registered twice
Successor_Twice(t, u, offset, len) ==
  {Event(NextSendTime(t), u, "Send", NextOffset(offset, len), 0, NoPkt),
   Event(NextSendTime(t), u + 1, "Send", NextOffset(offset, len), 0, NoPkt)}

\* no successor registered
Successor_None(t, u, offset, len) == {}

\* the successor a Send that sent len bytes at offset registers
Successor(t, u, offset, len) ==
  {Event(NextSendTime(t), u, "Send", NextOffset(offset, len), 0, NoPkt)}

\* the transport: one delivery per bound sink, after that sink's latency
Multicast(t, u, p) ==
  {Event(t + delay[r], u + r - 1, "Deliver", 0, r, p) : r \in Ues}

\* MulticastSender::Send
Send ==
  /\ Running
  /\ NextEvent.kind = "Send"
  /\ now' = NextEvent.time
  /\ sendCalls' = sendCalls + 1
  /\ IF MoreToSend(NextEvent.offset, buffer)
       THEN LET len == ChunkLen(NextEvent.offset, buffer)
                p == [off |-> NextEvent.offset, len |-> len]
            IN \E ok \in BOOLEAN :
                 /\ ok \/ sendFaults > 0
                 /\ sendFaults' = IF ok THEN sendFaults ELSE sendFaults - 1
                 /\ sent' = Append(sent, [time |-> NextEvent.time, offset |-> NextEvent.offset,
                                          len |-> len, ok |-> ok])
                 /\ events' = (events \ {NextEvent})
                      \cup (IF ok THEN Multicast(NextEvent.time, nextUid, p) ELSE {})
                      \cup Successor(NextEvent.time, nextUid + NumUes, NextEvent.offset, len)
                 /\ nextUid' = nextUid + NumUes + 1
       ELSE /\ events' = events \ {NextEvent}
            /\ UNCHANGED <<sent, nextUid, sendFaults>>
  /\ UNCHANGED <<cfg, file, delay, phase, stopped, started, buffer, rxq, log,
                 got, dropped, exitCode, sinkTx>>

\* a receive callback that reads one packet per call
RecvLines_Once(q, lg, r, t) ==
  IF q = <<>> THEN lg ELSE Append(lg, [id |-> r, time |-> t])

\* the sink's receive callback: one line per packet RecvFrom returns
RECURSIVE RecvLines(_, _, _, _)
RecvLines(q, lg, r, t) ==
  IF q = <<>> THEN lg
  ELSE RecvLines(Tail(q), Append(lg, [id |-> r, time |-> t]), r, t)

\* a receive callback that writes to one log shared by all UEs
Deliver_Shared(r) ==
  /\ Running
  /\ NextEvent.kind = "Deliver"
  /\ NextEvent.rcv = r
  /\ now' = NextEvent.time
  /\ LET q == Append(rxq[r], NextEvent.pkt)
     IN /\ log' = [u \in Ues |-> RecvLines(q, log[u], r, NextEvent.time)]
        /\ got' = [got EXCEPT ![r] = got[r] \o q]
        /\ rxq' = [rxq EXCEPT ![r] = <<>>]
  /\ events' = events \ {NextEvent}
  /\ UNCHANGED <<cfg, file, delay, phase, stopped, nextUid, started, buffer,
                 sent, sendCalls, dropped, exitCode, sinkTx, sendFaults>>

\* a packet reaches the socket of UE r, which runs the receive callback
Deliver(r) ==
  /\ Running
  /\ NextEvent.kind = "Deliver"
  /\ NextEvent.rcv = r
  /\ now' = NextEvent.time
  /\ LET q == Append(rxq[r], NextEvent.pkt)
     IN /\ log' = [log EXCEPT ![r] = RecvLines(q, log[r], r, NextEvent.time)]
        /\ got' = [got EXCEPT ![r] = got[r] \o q]
        /\ rxq' = [rxq EXCEPT ![r] = <<>>]
  /\ events' = events \ {NextEvent}
  /\ UNCHANGED <<cfg, file, delay, phase, stopped, nextUid, started, buffer,
                 sent, sendCalls, dropped, exitCode, sinkTx, sendFaults>>

\* a stop event that does not end the run
Stop_Ignored ==
  /\ Running
  /\ NextEvent.kind = "Stop"
  /\ now' = NextEvent.time
  /\ events' = events \ {NextEvent}
  /\ UNCHANGED <<cfg, file, delay, phase, stopped, nextUid, started, buffer,
                 sent, sendCalls, rxq, log, got, dropped, exitCode, sinkTx,
                 sendFaults>>

\* the stop event Simulator::Stop inserted
Stop ==
  /\ Running
  /\ NextEvent.kind = "Stop"
  /\ now' = NextEvent.time
  /\ stopped' = TRUE
  /\ events' = events \ {NextEvent}
  /\ UNCHANGED <<cfg, file, delay, phase, nextUid, started, buffer, sent,
                 sendCalls, rxq, log, got, dropped, exitCode, sinkTx, sendFaults>>

\* an end of run that discards what was sent and logged
Destroy_Reset ==
  /\ phase = "run"
  /\ stopped \/ events = {}
  /\ phase' = "done"
  /\ dropped' = events
  /\ events' = {}
  /\ exitCode' = 0
  /\ sent' = <<>>
  /\ log' = [r \in Ues |-> <<>>]
  /\ UNCHANGED <<cfg, file, delay, now, stopped, nextUid, started, buffer,
                 sendCalls, rxq, got, sinkTx, sendFaults>>

\* Simulator::Run returns, Simulator::Destroy, return 0
Destroy ==
  /\ phase = "run"
  /\ stopped \/ events = {}
  /\ phase' = "done"
  /\ dropped' = events
  /\ events' = {}
  /\ exitCode' = 0
  /\ UNCHANGED <<cfg, file, delay, now, stopped, nextUid, started, buffer,
                 sent, sendCalls, rxq, log, got, sinkTx, sendFaults>>

Next ==
  \/ StartApplication
  \/ Send
  \/ \E r \in Ues : Deliver(r)
  \/ Stop
  \/ Destroy

Spec == Init /\ [][Next]_vars

(***************************************************************************)
(* emma-sim.cc: EMMASimulator::ConfigureMulticast installs a UdpEchoClient *)
(* on the remote host, which sends MaxPackets packets of PacketSize bytes  *)
(* to the multicast group from its start time on, and a UdpEchoServer on   *)
(* every UE as the sink; main runs the engine for 11 s.  The applications' *)
(* stop times (10 s and 11 s) lie after every packet in flight.            *)
(***************************************************************************)
EchoMaxPackets == 1
EchoIntervalMs == 1000
EchoPacketSize == 1024
EchoStartMs == 1000
EchoRunMs == 11000

EchoConfig ==
  [chunk |-> EchoPacketSize, startDelay |-> EchoStartMs,
   interval |-> EchoIntervalMs, stop |-> EchoRunMs]

\* main of emma-sim.cc, up to Simulator::Run
InitEcho ==
  /\ cfg = EchoConfig
  /\ file = [ok |-> TRUE, len |-> EchoPacketSize]
  /\ delay \in [Ues -> Delays]
  /\ phase = "run"
  /\ now = 0
  /\ stopped = FALSE
  /\ events = {Event(EchoRunMs, 0, "Stop", 0, 0, NoPkt),
               Event(EchoStartMs, 1, "Start", 0, 0, NoPkt)}
  /\ nextUid = 2
  /\ started = FALSE
  /\ buffer = 0
  /\ sent = <<>>
  /\ sendCalls = 0
  /\ rxq = [r \in Ues |-> <<>>]
  /\ log = [r \in Ues |-> <<>>]
  /\ got = [r \in Ues |-> <<>>]
  /\ sinkTx = [r \in Ues |-> 0]
  /\ sendFaults = MaxFailures
  /\ dropped = {}
  /\ exitCode = -1

\* the echo client starts: its first transmission is due at once
EchoClientStart ==
  /\ Running
  /\ NextEvent.kind = "Start"
  /\ now' = NextEvent.time
  /\ started' = TRUE
  /\ buffer' = EchoPacketSize
  /\ events' = (events \ {NextEvent})
       \cup {Event(NextEvent.time, nextUid, "Send", 0, 0, NoPkt)}
  /\ nextUid' = nextUid + 1
  /\ UNCHANGED <<cfg, file, delay, phase, stopped, sent, sendCalls, rxq, log,
                 got, dropped, exitCode, sinkTx, sendFaults>>

\* the echo client sends one packet and reschedules while packets are left
EchoClientSend ==
  /\ Running
  /\ NextEvent.kind = "Send"
  /\ now' = NextEvent.time
  /\ sendCalls' = sendCalls + 1
  /\ \E ok \in BOOLEAN :
       /\ ok \/ sendFaults > 0
       /\ sendFaults' = IF ok THEN sendFaults ELSE sendFaults - 1
       /\ sent' = Append(sent, [time |-> NextEvent.time, offset |-> 0,
                                len |-> EchoPacketSize, ok |-> ok])
       /\ events' = (events \ {NextEvent})
            \cup (IF ok
                    THEN Multicast(NextEvent.time, nextUid,
                                   [off |-> 0, len |-> EchoPacketSize])
                    ELSE {})
            \cup (IF Len(sent) + 1 < EchoMaxPackets
                    THEN {Event(NextEvent.time + EchoIntervalMs, nextUid + NumUes,
                                "Send", 0, 0, NoPkt)}
                    ELSE {})
  /\ nextUid' = nextUid + NumUes + 1
  /\ UNCHANGED <<cfg, file, delay, phase, stopped, started, buffer, rxq, log,
                 got, dropped, exitCode, sinkTx>>

\* a packet reaches the echo server of UE r, which sends it back to its source
EchoServerRead(r) ==
  /\ Running
  /\ NextEvent.kind = "Deliver"
  /\ NextEvent.rcv = r
  /\ now' = NextEvent.time
  /\ LET q == Append(rxq[r], NextEvent.pkt)
     IN /\ got' = [got EXCEPT ![r] = got[r] \o q]
        /\ rxq' = [rxq EXCEPT ![r] = <<>>]
        /\ sinkTx' = [sinkTx EXCEPT ![r] = sinkTx[r] + Len(q)]
        /\ \E d \in Delays :
             events' = (events \ {NextEvent})
               \cup {Event(NextEvent.time + d, nextUid, "Reply", 0, r, NextEvent.pkt)}
  /\ nextUid' = nextUid + 1
  /\ UNCHANGED <<cfg, file, delay, phase, stopped, started, buffer, sent,
                 sendCalls, log, dropped, exitCode, sendFaults>>

\* an echo reaches the client, which reads it
EchoClientRead ==
  /\ Running
  /\ NextEvent.kind = "Reply"
  /\ now' = NextEvent.time
  /\ events' = events \ {NextEvent}
  /\ UNCHANGED <<cfg, file, delay, phase, stopped, nextUid, started, buffer,
                 sent, sendCalls, rxq, log, got, dropped, exitCode, sinkTx,
                 sendFaults>>

NextEcho ==
  \/ EchoClientStart
  \/ EchoClientSend
  \/ \E r \in Ues : EchoServerRead(r)
  \/ EchoClientRead
  \/ Stop
  \/ Destroy

SpecEcho == InitEcho /\ [][NextEcho]_vars

(***************************************************************************)
(* Notions the properties are stated with.                                 *)
(***************************************************************************)
\* payload length L and chunk size C
L == ReadFile
C == cfg.chunk

\* ceil(L / C)
ChunkCount == (L + C - 1) \div C

\* virtual time of the k-th transmit event (k from 1)
SendTime(k) == SenderStartMs + cfg.startDelay + (k - 1) * cfg.interval

SendEvents == {e \in events : e.kind = "Send"}

RECURSIVE SumLen(_)
SumLen(s) == IF s = <<>> THEN 0 ELSE s[1].len + SumLen(Tail(s))

\* the stop time cut the chain: Destroy dropped the start or a Send with bytes left
Truncated ==
  \E e \in dropped : e.kind = "Start" \/ (e.kind = "Send" /\ e.offset < L)

Complete == phase = "done" /\ ~Truncated

\* chunks covering byte b of the payload
Covering(b) == {i \in 1..Len(sent) : sent[i].offset <= b /\ b < sent[i].offset + sent[i].len}

\* the bytes a packet carries
Bytes(p) == [i \in 1..p.len |-> FileByte(p.off + i - 1)]

Payload == [i \in 1..L |-> FileByte(i - 1)]

RECURSIVE Concat(_)
Concat(ps) == IF ps = <<>> THEN <<>> ELSE Bytes(ps[1]) \o Concat(Tail(ps))

\* what UE r has received, in arrival order
Reassembled(r) == Concat(got[r])

Lossless == \A k \in 1..Len(sent) : sent[k].ok

(***************************************************************************)
(* C1: the chunks sent so far are contiguous from offset 0, none is empty, *)
(* they are sent in order of time, and over a run the stop time did not    *)
(* cut they partition [0, L): their lengths sum to L and every payload     *)
(* byte lies in exactly one chunk.                                         *)
(***************************************************************************)
C1_Partition ==
  /\ Len(sent) > 0 => sent[1].offset = 0
  /\ \A i \in 1..Len(sent) :
       /\ sent[i].len > 0
       /\ i < Len(sent) =>
            /\ sent[i + 1].offset = sent[i].offset + sent[i].len
            /\ sent[i].time <= sent[i + 1].time
  /\ SumLen(sent) <= L
  /\ Complete =>
       /\ SumLen(sent) = L
       /\ \A b \in 0..(L - 1) : Cardinality(Covering(b)) = 1

C1_Witness ==
  /\ Complete
  /\ Len(sent) = 3
  /\ sent[3].len < C
  /\ sent[3].offset + sent[3].len = L

(***************************************************************************)
(* C2: over a run the stop time did not cut, the number of transmit events *)
(* is ceil(L / C), which is 0 for L = 0; it is never more in any state.    *)
(***************************************************************************)
C2_ChunkCount ==
  /\ Len(sent) <= ChunkCount
  /\ Complete => Len(sent) = ChunkCount
  /\ Complete /\ L = 0 => Len(sent) = 0

C2_Witness ==
  /\ Complete
  /\ L = 2 * C
  /\ Len(sent) = 2

(***************************************************************************)
(* C3: the first transmit event is at the sender's start time plus         *)
(* startDelay, and consecutive transmit events are exactly interval apart. *)
(***************************************************************************)
C3_Cadence ==
  /\ Len(sent) > 0 => sent[1].time = SenderStartMs + cfg.startDelay
  /\ \A i \in 1..(Len(sent) - 1) : sent[i + 1].time - sent[i].time = cfg.interval

C3_Witness ==
  /\ cfg = Shipped
  /\ Len(sent) = 3
  /\ sent[1].time = 1000
  /\ sent[2].time = 1010
  /\ sent[3].time = 1020

(***************************************************************************)
(* C4, as claimed: with no packet lost, whenever the stop time is at least *)
(* the time of the last transmit event (equality included), every UE ends  *)
(* a run in which the sender started with ChunkCount log lines and the     *)
(* whole payload.                                                          *)
(***************************************************************************)
C4_AsClaimed ==
  (phase = "done" /\ started /\ file.ok /\ Lossless
     /\ cfg.stop >= SendTime(ChunkCount)) =>
    \A r \in Ues : Len(log[r]) = ChunkCount /\ Reassembled(r) = Payload

(***************************************************************************)
(* C4, amended: with no packet lost, every UE whose latency added to the   *)
(* time of the last transmit event stays strictly below the stop time ends *)
(* the run with ChunkCount log lines and the whole payload; all such UEs   *)
(* hold logs of the same length and the same payload.                      *)
(***************************************************************************)
C4_Delivery ==
  (phase = "done" /\ file.ok /\ Lossless) =>
    \A r \in Ues :
      cfg.stop > SendTime(ChunkCount) + delay[r] =>
        /\ Len(log[r]) = ChunkCount
        /\ Reassembled(r) = Payload
        /\ \A q \in Ues :
             cfg.stop > SendTime(ChunkCount) + delay[q] =>
               Len(log[q]) = Len(log[r]) /\ Reassembled(q) = Reassembled(r)

C4_Witness ==
  /\ phase = "done" /\ file.ok /\ Lossless
  /\ ChunkCount = 3
  /\ L % C # 0
  /\ delay[1] # delay[2]
  /\ \A r \in Ues : cfg.stop > SendTime(ChunkCount) + delay[r]
  /\ \A r \in Ues : Len(log[r]) = 3 /\ Reassembled(r) = Payload

(***************************************************************************)
(* C5: no log line is timestamped after the stop time; a run whose stop    *)
(* time is below the time of the last transmit event ends with fewer than  *)
(* ChunkCount lines in every log; with the stop time equal to startDelay   *)
(* no log ever holds more than one line.                                   *)
(***************************************************************************)
C5_Truncation ==
  /\ \A r \in Ues : \A k \in 1..Len(log[r]) : log[r][k].time <= cfg.stop
  /\ (phase = "done" /\ ChunkCount >= 1 /\ cfg.stop < SendTime(ChunkCount)) =>
       \A r \in Ues : Len(log[r]) < ChunkCount
  /\ cfg.stop = SenderStartMs + cfg.startDelay =>
       \A r \in Ues : Len(log[r]) <= 1

C5_Witness ==
  /\ phase = "done"
  /\ ChunkCount = 3
  /\ cfg.stop < SendTime(ChunkCount)
  /\ \E r \in Ues : Len(log[r]) = 2
  /\ \E r \in Ues : Len(log[r]) = 1

(***************************************************************************)
(* C6, as claimed: a failed send is the last transmit step of the run, no  *)
(* Send event with bytes left to send is pending after it, and the run     *)
(* ends with an error.                                                     *)
(***************************************************************************)
C6_AsClaimed ==
  /\ \A k \in 1..Len(sent) :
       ~sent[k].ok =>
         /\ k = Len(sent)
         /\ \A e \in SendEvents : ~MoreToSend(e.offset, buffer)
  /\ (phase = "done" /\ ~Lossless) => exitCode # 0

(***************************************************************************)
(* C7, as claimed: when the payload file cannot be read, nothing is        *)
(* transmitted and a run in which the sender started ends with an error    *)
(* reported to the caller.                                                 *)
(***************************************************************************)
C7_AsClaimed ==
  ~file.ok =>
    /\ sent = <<>>
    /\ \A e \in events : e.kind # "Deliver"
    /\ (phase = "done" /\ started) => exitCode # 0

(***************************************************************************)
(* C8, as claimed: with an empty payload nothing is transmitted, no Send   *)
(* event is pending once Start has run, and every log stays empty.         *)
(***************************************************************************)
C8_AsClaimed ==
  (file.ok /\ file.len = 0) =>
    /\ sent = <<>>
    /\ started => SendEvents = {}
    /\ \A r \in Ues : log[r] = <<>>

(***************************************************************************)
(* C8, amended: with an empty payload nothing is transmitted and every log *)
(* stays empty; Start registers one Send event with offset 0 at startDelay *)
(* and that event, when it runs, sends nothing and registers nothing, so   *)
(* no Send event is pending from then on.                                  *)
(***************************************************************************)
C8_EmptyPayload ==
  (file.ok /\ file.len = 0) =>
    /\ sent = <<>>
    /\ \A r \in Ues : log[r] = <<>> /\ got[r] = <<>>
    /\ \A e \in events : e.kind # "Deliver"
    /\ sendCalls <= 1
    /\ (phase = "run" /\ started /\ sendCalls = 0) =>
         SendEvents = {Event(SenderStartMs + cfg.startDelay, 2, "Send", 0, 0, NoPkt)}
    /\ sendCalls = 1 => SendEvents = {}

C8_Witness ==
  /\ file.ok /\ file.len = 0
  /\ phase = "run" /\ ~stopped
  /\ sendCalls = 1
  /\ SendEvents = {}

(***************************************************************************)
(* C9, as claimed: a step in which a receiver handles an arriving packet   *)
(* puts no packet on the network, only consumes its own event (it neither  *)
(* schedules nor cancels one) and leaves the sender's state alone; the     *)
(* transmit events are those the payload and the literals fix, whatever    *)
(* the receivers and their latencies.                                      *)
(***************************************************************************)
ReceiverHandles == \E r \in Ues : Len(got'[r]) > Len(got[r])

C9_AsClaimed ==
  /\ [][ReceiverHandles =>
          /\ sinkTx' = sinkTx
          /\ events' = events \ {NextEvent}
          /\ sent' = sent
          /\ sendCalls' = sendCalls
          /\ buffer' = buffer]_vars
  /\ [](\A k \in 1..Len(sent) :
          /\ sent[k].time = SendTime(k)
          /\ sent[k].offset = (k - 1) * C
          /\ sent[k].len = Min(C, L - (k - 1) * C))

(***************************************************************************)
(* C10, as claimed (on runs where every send succeeds): a successor Send   *)
(* event is registered only when bytes are left, so once the final chunk   *)
(* is sent no Send event is pending.                                       *)
(***************************************************************************)
C10_AsClaimed ==
  Lossless =>
    /\ \A e \in SendEvents : e.offset > 0 => e.offset < buffer
    /\ (Len(sent) > 0 /\ SumLen(sent) = buffer) => SendEvents = {}

(***************************************************************************)
(* C10, amended: every Send that transmits a chunk registers one successor *)
(* at now + interval, also after the final chunk; the successor of the     *)
(* final chunk carries offset = L, sends nothing and registers nothing,    *)
(* and only once it has run is no Send event pending.                      *)
(***************************************************************************)
C10_FinalChunk ==
  (phase = "run" /\ started) =>
    /\ sendCalls <= Len(sent) + 1
    /\ sendCalls = Len(sent) =>
         SendEvents = {e \in events :
                         /\ e.kind = "Send"
                         /\ e.offset = SumLen(sent)
                         /\ e.time = SendTime(Len(sent) + 1)}
           /\ Cardinality(SendEvents) = 1
    /\ sendCalls = Len(sent) + 1 => SendEvents = {} /\ SumLen(sent) = buffer

C10_Witness ==
  /\ phase = "run"
  /\ Len(sent) = 2
  /\ sent[2].offset + sent[2].len = buffer
  /\ \E e \in SendEvents : e.offset = buffer /\ e.time = sent[2].time + cfg.interval

(***************************************************************************)
(* C11: every chunk has len = min(C, L - offset): each chunk but the last  *)
(* of the payload has length C, and the last one has length                *)
(* L - (n-1)*C, between 1 and C, which is C when C divides L; with the     *)
(* shipped chunk size 2048 bytes go out as 1024, 1024 and 2500 bytes as    *)
(* 1024, 1024, 452.                                                        *)
(***************************************************************************)
Lens == [i \in 1..Len(sent) |-> sent[i].len]

C11_ChunkLengths ==
  /\ \A i \in 1..Len(sent) :
       /\ sent[i].len = Min(C, L - sent[i].offset)
       /\ i < ChunkCount => sent[i].len = C
       /\ i = ChunkCount =>
            /\ sent[i].len = L - (ChunkCount - 1) * C
            /\ sent[i].len \in 1..C
            /\ L % C = 0 => sent[i].len = C
  /\ (Complete /\ C = 1024 /\ L = 2048) => Lens = <<1024, 1024>>
  /\ (Complete /\ C = 1024 /\ L = 2500) => Lens = <<1024, 1024, 452>>

C11_Witness ==
  /\ Complete
  /\ cfg = Shipped
  /\ L = 2500
  /\ Lens = <<1024, 1024, 452>>

(***************************************************************************)
(* C12: the sender never moves backwards.  The offset starts at 0, the     *)
(* offsets transmitted from are strictly increasing (none is used twice)   *)
(* and lie below the offset of the pending Send; once the sender is done   *)
(* (started, and no pending Send has bytes left) it stays done, transmits  *)
(* nothing more and registers no further Send event.                       *)
(***************************************************************************)
SenderDone == started /\ \A e \in SendEvents : e.offset >= buffer

C12_Monotone ==
  /\ [](/\ (phase = "run" /\ started /\ sendCalls = 0) =>
             \E e \in SendEvents : e.offset = 0
        /\ Len(sent) > 0 => sent[1].offset = 0
        /\ \A i, j \in 1..Len(sent) : i < j => sent[i].offset < sent[j].offset
        /\ \A e \in SendEvents : \A i \in 1..Len(sent) : sent[i].offset < e.offset)
  /\ [][SenderDone =>
          /\ SenderDone'
          /\ sent' = sent
          /\ SendEvents' \subseteq SendEvents]_vars

C12_Witness ==
  /\ phase = "run" /\ ~stopped
  /\ SenderDone
  /\ Len(sent) = 3
  /\ sendCalls = 4
  /\ \E e \in events : e.kind = "Deliver"

(***************************************************************************)
(* C13: the scheduler never holds more than one pending sender event       *)
(* (the start or a Send).  Start registers exactly one Send event, and a   *)
(* Send step leaves at most one behind: the one it registered itself.      *)
(***************************************************************************)
SenderEvents == {e \in events : e.kind \in {"Start", "Send"}}

C13_OnePending ==
  /\ [](/\ Cardinality(SenderEvents) <= 1
        /\ (phase = "run" /\ started /\ sendCalls = 0) =>
             Cardinality(SendEvents) = 1)
  /\ [][/\ Cardinality(SendEvents' \ SendEvents) <= 1
        /\ (~started /\ started') => Cardinality(SendEvents') = 1
        /\ sendCalls' # sendCalls =>
             /\ SendEvents' \cap SendEvents = {}
             /\ (sent' = sent => SendEvents' = {})]_vars

C13_Witness ==
  /\ phase = "run"
  /\ Len(sent) = 2
  /\ Cardinality(SendEvents) = 1
  /\ Cardinality({e \in events : e.kind = "Deliver"}) = 3

(***************************************************************************)
(* C14: every UE logs one line per chunk delivered to it, none skipped and *)
(* none merged: lines logged and deliveries still under way add up to the  *)
(* chunks the socket accepted, the k-th line of every log belongs to the   *)
(* k-th such chunk (at its send time plus the UE's latency), a log is      *)
(* never longer than the list of chunks sent, and a callback that finds n  *)
(* packets queued logs n lines.                                            *)
(***************************************************************************)
IsOk(s) == s.ok

\* the chunks the socket accepted, in send order
OkSent == SelectSeq(sent, IsOk)

Delivering(r) == {e \in events : e.kind = "Deliver" /\ e.rcv = r}

Queue(n) == [i \in 1..n |-> NoPkt]

C14_OnePerChunk ==
  \A r \in Ues :
    /\ Len(log[r]) = Len(got[r])
    /\ Len(log[r]) <= Len(OkSent)
    /\ Len(log[r]) <= Len(sent)
    /\ phase = "run" => Len(log[r]) + Cardinality(Delivering(r)) = Len(OkSent)
    /\ \A k \in 1..Len(log[r]) :
         /\ got[r][k] = [off |-> OkSent[k].offset, len |-> OkSent[k].len]
         /\ log[r][k] = [id |-> r, time |-> OkSent[k].time + delay[r]]
    /\ \A n \in 0..MaxQueue :
         RecvLines(Queue(n), log[r], r, now)
           = log[r] \o [i \in 1..n |-> [id |-> r, time |-> now]]

C14_Witness ==
  /\ phase = "run"
  /\ Len(sent) = 3
  /\ ~Lossless
  /\ Len(log[1]) = 2
  /\ Len(log[2]) = 1
  /\ Delivering(2) # {}

(***************************************************************************)
(* C15: receivers are independent.  A step that changes the log of UE r    *)
(* appends the one line (r, now) to it and leaves the log of every other   *)
(* UE as it was; every line of a log carries the identity of its own UE.   *)
(***************************************************************************)
C15_Independent ==
  /\ [](\A r \in Ues : \A k \in 1..Len(log[r]) : log[r][k].id = r)
  /\ [][\A r \in Ues :
          log'[r] # log[r] =>
            /\ log'[r] = Append(log[r], [id |-> r, time |-> now'])
            /\ \A u \in Ues \ {r} : log'[u] = log[u]]_vars

C15_Witness ==
  /\ phase = "run"
  /\ Len(log[1]) = 1
  /\ Len(log[2]) = 2
  /\ log[1][1].time # log[2][1].time

(***************************************************************************)
(* C16: nothing is rolled back.  In every step the list of chunks sent and *)
(* every log keep what they held, unchanged and in place, and at most grow *)
(* at the end: also in steps after a failed send, and when the stop time   *)
(* ends the run.                                                           *)
(***************************************************************************)
IsPrefix(a, b) == Len(a) <= Len(b) /\ SubSeq(b, 1, Len(a)) = a

C16_NoRollback ==
  [][/\ IsPrefix(sent, sent')
     /\ \A r \in Ues : IsPrefix(log[r], log'[r]) /\ IsPrefix(got[r], got'[r])]_vars

C16_Witness ==
  /\ phase = "done"
  /\ stopped
  /\ Truncated
  /\ Len(sent) = 2
  /\ ~sent[2].ok
  /\ \A r \in Ues : Len(log[r]) = 1

(***************************************************************************)
(* The run under the scheduler's progress guarantee: Simulator::Run keeps  *)
(* executing the earliest event until the list is empty or the stop event  *)
(* has run, and main then destroys the simulator.                          *)
(***************************************************************************)
SpecLive == Init /\ [][Next]_vars /\ WF_vars(Next)

(***************************************************************************)
(* C17: for every payload length, chunk size and interval (0 included),    *)
(* once Start has run the sender eventually has all L bytes handed to the  *)
(* socket and no sender event pending, unless the stop time cut the run    *)
(* short; the chain of rescheduled steps is finite: Send runs at most once *)
(* per chunk plus one final step that finds nothing left.                  *)
(***************************************************************************)
AllSent == SumLen(sent) = L /\ SenderEvents = {}

C17_Terminates ==
  /\ [](sendCalls <= ChunkCount + 1)
  /\ started ~> (Truncated \/ AllSent)

C17_Witness ==
  /\ phase = "run"
  /\ ~stopped
  /\ cfg.interval = 0
  /\ Len(sent) = 3
  /\ sendCalls = 4
  /\ AllSent

(***************************************************************************)
(* C18: buffer bounds.  The offset of every Send event, pending or cut off *)
(* by the stop time, lies in 0..L; every chunk read from the buffer has    *)
(* offset < L, 1 <= len <= chunk size and offset + len <= L, so its bytes  *)
(* all lie inside the buffer; a Send step with offset >= L sends nothing   *)
(* and schedules nothing.                                                  *)
(***************************************************************************)
C18_InBounds ==
  /\ [](/\ \A e \in SendEvents \cup {d \in dropped : d.kind = "Send"} :
             0 <= e.offset /\ e.offset <= L
        /\ \A i \in 1..Len(sent) :
             /\ 0 <= sent[i].offset /\ sent[i].offset < L
             /\ 1 <= sent[i].len /\ sent[i].len <= C
             /\ sent[i].offset + sent[i].len <= L
        /\ \A e \in events : e.kind = "Deliver" =>
             e.pkt.off >= 0 /\ e.pkt.len >= 1 /\ e.pkt.off + e.pkt.len <= L)
  /\ [][(/\ sendCalls' # sendCalls
         /\ \E e \in SendEvents : e = NextEvent /\ e.offset >= L)
          => sent' = sent /\ events' = events \ {NextEvent}]_vars

C18_Witness ==
  /\ phase = "run"
  /\ L % C # 0
  /\ Len(sent) = 2
  /\ sent[2].len < C
  /\ \E e \in SendEvents : e.offset = L

(***************************************************************************)
(* The shipped program fed a video file about as long as its five seconds  *)
(* can carry: one byte short of, exactly, and one byte more than the       *)
(* chunks that fit before the stop time.  Every socket send succeeds.      *)
(***************************************************************************)
ShippedSlots == (StopMs - StartDelayMs) \div IntervalMs

LongLens == {ShippedSlots * ChunkBytes + d : d \in {-1, 0, 1}}

InitLong ==
  /\ cfg = Shipped
  /\ file \in {[ok |-> TRUE, len |-> n] : n \in LongLens}
  /\ delay \in [Ues -> Delays]
  /\ phase = "run"
  /\ now = 0
  /\ stopped = FALSE
  /\ events = {Event(cfg.stop, 0, "Stop", 0, 0, NoPkt),
               Event(SenderStartMs, 1, "Start", 0, 0, NoPkt)}
  /\ nextUid = 2
  /\ started = FALSE
  /\ buffer = 0
  /\ sent = <<>>
  /\ sendCalls = 0
  /\ rxq = [r \in Ues |-> <<>>]
  /\ log = [r \in Ues |-> <<>>]
  /\ got = [r \in Ues |-> <<>>]
  /\ sinkTx = [r \in Ues |-> 0]
  /\ sendFaults = 0
  /\ dropped = {}
  /\ exitCode = -1

SpecStop == (Init \/ InitLong) /\ [][Next]_vars

\* the number of k >= 0 with startDelay + k * interval < stop, interval > 0
SlotCount ==
  IF cfg.stop <= cfg.startDelay THEN 0
  ELSE (cfg.stop - cfg.startDelay + cfg.interval - 1) \div cfg.interval

(***************************************************************************)
(* C19: with the stop event inserted before the run and equal-time events  *)
(* run in insertion order, a finished run with interval > 0 has made       *)
(* exactly min(ceil(L / C), #{k >= 0 : startDelay + k*interval < stop})    *)
(* transmissions; no transmission happens at or after the stop time, a     *)
(* sender event due exactly at the stop time is left unexecuted.  The      *)
(* shipped configuration never sends more than 400 chunks, and a payload   *)
(* longer than 400 * 1024 bytes ends truncated after exactly 400.          *)
(***************************************************************************)
C19_StopCount ==
  /\ (cfg.interval > 0 /\ cfg.stop <= MaxStop) =>
       SlotCount = Cardinality({k \in 0..cfg.stop :
                      cfg.startDelay + k * cfg.interval < cfg.stop})
  /\ (phase = "done" /\ cfg.interval > 0) =>
       Len(sent) = Min(ChunkCount, SlotCount)
  /\ \A i \in 1..Len(sent) : sent[i].time < cfg.stop
  /\ \A e \in dropped : e.time >= cfg.stop
  /\ cfg = Shipped =>
       /\ SlotCount = 400
       /\ Len(sent) <= 400
       /\ (phase = "done" /\ L > 400 * 1024) =>
            /\ Len(sent) = 400
            /\ sent[400].offset + sent[400].len = 400 * 1024
            /\ Truncated

C19_Witness ==
  /\ cfg = Shipped
  /\ phase = "done"
  /\ L = 400 * 1024 + 1
  /\ Len(sent) = 400
  /\ \E e \in dropped :
       e.kind = "Send" /\ e.time = cfg.stop /\ e.offset = 400 * 1024

=============================================================================
